---- MODULE Spec2Model ----
(***************************************************************************)
(* yadex: an HTTP directory index confined by chroot.                      *)
(*                                                                         *)
(* The model covers the two entry points found in the sources, main        *)
(* (src/main.rs) and App::serve (src/server.rs), the request handler       *)
(* directory_listing, the row formatter DirEntryInfo::fmt with the two     *)
(* html_escape encoders it calls, and YadexError::into_response.           *)
(*                                                                         *)
(* Strings that the handler inspects or rewrites (request paths, file      *)
(* names, escaped output) are sequences of one-character strings.  The     *)
(* character "xFF" stands for a byte that is not valid UTF-8 and "uFFFD"   *)
(* for the replacement character to_string_lossy puts in its place.        *)
(*                                                                         *)
(* The handler shares only immutable state (limit, header, footer) with    *)
(* other requests, so one request slot is modelled.  The size and mtime    *)
(* columns of a row do not depend on the name, the limit or the index and  *)
(* are left out of the row record.                                         *)
(***************************************************************************)
EXTENDS Integers, Sequences, FiniteSets, TLC

\* ------------------------------------------------------------------ bounds

\* Largest number of entries a directory of the model holds.
MaxEntries == 3

\* Largest value of service.limit in the configuration file.
MaxLimit == 2

\* usize::MAX, the limit stored for "unbounded".  TLC's integers are 32-bit,
\* so the largest of them stands for 2^64 - 1; the handler only ever
\* compares it with an index below MaxEntries.
UsizeMax == 2147483647

\* ------------------------------------------------------------------ inputs

\* File names a directory may hold.  A name from readdir is never empty and
\* never contains '/'.
FileNames ==
    { <<"a">>,
      <<"<", "b", ">">>,
      <<"a", " ", "&", "\"">>,
      <<"#", "?", "%", "'", "xFF">> }

\* Request paths (Uri::path is never empty and starts with '/').
Paths == { <<"/">>, <<"/", "a">>, <<"/", "a", "/">> }

\* io::ErrorKind values read_dir can fail with.
OpenErrors == { "NotFound", "NotADirectory", "PermissionDenied" }

\* One item of the directory stream: Err(io::Error) from the stream itself,
\* an entry whose metadata() fails, or an entry with its metadata.
Items ==
    { [status |-> "read_err", name |-> <<>>, is_dir |-> FALSE] }
    \cup { [status |-> "meta_err", name |-> n, is_dir |-> FALSE] : n \in FileNames }
    \cup { [status |-> "ok", name |-> n, is_dir |-> d] : n \in FileNames, d \in BOOLEAN }

\* ------------------------------------------------------------------ state

VARIABLES
    entry,        \* the function the execution started in
    mpc,          \* position in main
    spc,          \* position in App::serve
    chrootDone,   \* chroot(root) has succeeded
    cwdRoot,      \* set_current_dir("/") has succeeded
    cfgLimit,     \* ServiceConfig.limit
    limit,        \* AppState.limit
    rootHandled,  \* main's router has dispatched a request
    rpc,          \* position in directory_listing
    path,         \* uri.path()
    openErr,      \* the io::Error of a failed read_dir, "" if none
    dirLen,       \* number of items the opened directory's stream holds
    yielded,      \* the items read_dir.next() has produced so far
    html,         \* the String being built
    response,     \* the Response returned
    fsOps         \* kinds of filesystem call made for this request

vars == << entry, mpc, spc, chrootDone, cwdRoot, cfgLimit, limit, rootHandled,
           rpc, path, openErr, dirLen, yielded, html, response, fsOps >>

procVars == << entry, mpc, spc, chrootDone, cwdRoot, cfgLimit, limit, rootHandled >>
reqVars == << rpc, path, openErr, dirLen, yielded, html, response, fsOps >>

\* ------------------------------------------------------- string functions

ends_with_slash_first(p) == p # <<>> /\ p[1] = "/"

\* str::ends_with('/')
ends_with_slash(p) == p # <<>> /\ p[Len(p)] = "/"

lossy_char(c) == IF c = "xFF" THEN <<"uFFFD">> ELSE <<c>>

RECURSIVE to_string_lossy(_)
\* OsStr::to_string_lossy
to_string_lossy(s) ==
    IF s = <<>> THEN <<>> ELSE lossy_char(Head(s)) \o to_string_lossy(Tail(s))

encode_safe_char(c) ==
    CASE c = "&" -> <<"&", "a", "m", "p", ";">>
      [] c = "<" -> <<"&", "l", "t", ";">>
      [] c = ">" -> <<"&", "g", "t", ";">>
      [] c = "\"" -> <<"&", "q", "u", "o", "t", ";">>
      [] c = "'" -> <<"&", "#", "x", "2", "7", ";">>
      [] c = "/" -> <<"&", "#", "x", "2", "F", ";">>
      [] OTHER -> <<c>>

RECURSIVE encode_safe(_)
\* html_escape::encode_safe
encode_safe(s) ==
    IF s = <<>> THEN <<>> ELSE encode_safe_char(Head(s)) \o encode_safe(Tail(s))

encode_dq_attr_char(c) ==
    CASE c = "&" -> <<"&", "a", "m", "p", ";">>
      [] c = "\"" -> <<"&", "q", "u", "o", "t", ";">>
      [] OTHER -> <<c>>

RECURSIVE encode_double_quoted_attribute(_)
\* html_escape::encode_double_quoted_attribute
encode_double_quoted_attribute(s) ==
    IF s = <<>> THEN <<>> ELSE encode_dq_attr_char(Head(s)) \o encode_double_quoted_attribute(Tail(s))

append_slash_always(name, is_dir) == Append(name, "/")

append_slash_for_dir(name, is_dir) ==
    IF is_dir THEN Append(name, "/") ELSE name

\* ------------------------------------------------------------------- rows

\* The pieces html is made of.  Every piece has the same fields.
HeaderPiece == [kind |-> "header", href |-> <<>>, text |-> <<>>]
FooterPiece == [kind |-> "footer", href |-> <<>>, text |-> <<>>]
TruncatedRow == [kind |-> "truncated-warning", href |-> <<>>, text |-> <<>>]
EntryErrorRow == [kind |-> "entry-error", href |-> <<>>, text |-> <<>>]

\* DirEntryInfo::fmt on the DirEntryInfo directory_listing builds from d.
EntryRow(d) ==
    LET name == to_string_lossy(d.name)
    IN [kind |-> "entry",
        href |-> append_slash_for_dir(encode_double_quoted_attribute(name), d.is_dir),
        text |-> append_slash_for_dir(encode_safe(name), d.is_dir)]

RowSkipped(item) == <<>>

\* What one pass of the loop body writes for the item, before the limit test.
RowFor(item) ==
    IF item.status = "ok" THEN << EntryRow(item) >> ELSE << EntryErrorRow >>

LimitFromConfigRaw(l) == l

\* AppState.limit as App::serve computes it from config.limit.
LimitFromConfig(l) == IF l = 0 THEN UsizeMax ELSE l

ReachedLimitAfter(idx, lim) == idx = lim

\* idx == state.limit - 1
ReachedLimit(idx, lim) == idx = lim - 1

TakeOneMore(n, lim) == n <= lim

\* .take(state.limit): the adapter passes an item on while fewer than
\* state.limit have been passed on.
TakeHasMore(n, lim) == n < lim

\* ------------------------------------------------------------- responses

NoResponse == [kind |-> "none", status |-> 0, location |-> <<>>, text |-> ""]

\* Redirect::permanent(&format!("{path}/")).into_response()
RedirectPermanent(p) ==
    [kind |-> "redirect", status |-> 308, location |-> Append(p, "/"), text |-> ""]

\* Html(html).into_response(); the body is the variable html.
HtmlResponse == [kind |-> "html", status |-> 200, location |-> <<>>, text |-> ""]

\* YadexError::NotFound { source }.into_response(): a &'static str turned
\* into a response keeps the default status.
NotFoundResponse(source) ==
    [kind |-> "text", status |-> 200, location |-> <<>>, text |-> "404 Not Found"]

\* ------------------------------------------------------------------- Init

Init ==
    /\ entry \in {"main", "App::serve"}
    /\ mpc = "start"
    /\ spc = "start"
    /\ chrootDone = FALSE
    /\ cwdRoot = FALSE
    /\ cfgLimit \in 0..MaxLimit
    /\ limit = 0
    /\ rootHandled = FALSE
    /\ rpc = "idle"
    /\ path = <<"/">>
    /\ openErr = ""
    /\ dirLen = 0
    /\ yielded = <<>>
    /\ html = <<>>
    /\ response = NoResponse
    /\ fsOps = {}

\* ------------------------------------------------------------------- main

\* color_eyre::install, Cmdline::parse and Figment::extract succeed.
MainConfigured ==
    /\ entry = "main" /\ mpc = "start"
    /\ mpc' = "configured"
    /\ UNCHANGED << entry, spc, chrootDone, cwdRoot, cfgLimit, limit, rootHandled >>
    /\ UNCHANGED reqVars

\* One of them fails: main returns the error.
MainConfigFails ==
    /\ entry = "main" /\ mpc = "start"
    /\ mpc' = "error"
    /\ UNCHANGED << entry, spc, chrootDone, cwdRoot, cfgLimit, limit, rootHandled >>
    /\ UNCHANGED reqVars

\* TcpListener::bind succeeds and main calls axum::serve(listener, app).
MainBindAndServe ==
    /\ entry = "main" /\ mpc = "configured"
    /\ mpc' = "serving"
    /\ UNCHANGED << entry, spc, chrootDone, cwdRoot, cfgLimit, limit, rootHandled >>
    /\ UNCHANGED reqVars

MainBindFails ==
    /\ entry = "main" /\ mpc = "configured"
    /\ mpc' = "bind_error"
    /\ UNCHANGED << entry, spc, chrootDone, cwdRoot, cfgLimit, limit, rootHandled >>
    /\ UNCHANGED reqVars

\* The router main built dispatches a request to its handler.
MainHandleRequest ==
    /\ entry = "main" /\ mpc = "serving"
    /\ rootHandled' = TRUE
    /\ UNCHANGED << entry, mpc, spc, chrootDone, cwdRoot, cfgLimit, limit >>
    /\ UNCHANGED reqVars

\* ------------------------------------------------------------- App::serve

\* Router::new().fallback(get(directory_listing)).with_state(AppState{..})
ServeBuildRouter ==
    /\ entry = "App::serve" /\ spc = "start"
    /\ limit' = LimitFromConfig(cfgLimit)
    /\ spc' = "router"
    /\ UNCHANGED << entry, mpc, chrootDone, cwdRoot, cfgLimit, rootHandled >>
    /\ UNCHANGED reqVars

ServeChrootOk ==
    /\ entry = "App::serve" /\ spc = "router"
    /\ chrootDone' = TRUE
    /\ spc' = "chrooted"
    /\ UNCHANGED << entry, mpc, cwdRoot, cfgLimit, limit, rootHandled >>
    /\ UNCHANGED reqVars

\* chroot(root) fails: "failed to chroot" is returned by `?`.
ServeChrootFails ==
    /\ entry = "App::serve" /\ spc = "router"
    /\ spc' = "chroot_error"
    /\ UNCHANGED << entry, mpc, chrootDone, cwdRoot, cfgLimit, limit, rootHandled >>
    /\ UNCHANGED reqVars

ServeChdirOk ==
    /\ entry = "App::serve" /\ spc = "chrooted"
    /\ cwdRoot' = TRUE
    /\ spc' = "serving"
    /\ UNCHANGED << entry, mpc, chrootDone, cfgLimit, limit, rootHandled >>
    /\ UNCHANGED reqVars

\* set_current_dir("/") fails: "failed to cd into new root" is returned.
ServeChdirFails ==
    /\ entry = "App::serve" /\ spc = "chrooted"
    /\ spc' = "chdir_error"
    /\ UNCHANGED << entry, mpc, chrootDone, cwdRoot, cfgLimit, limit, rootHandled >>
    /\ UNCHANGED reqVars

\* axum::serve returns an error: "serve failed".  Handlers stop running.
ServeFails ==
    /\ entry = "App::serve" /\ spc = "serving"
    /\ spc' = "serve_error"
    /\ UNCHANGED << entry, mpc, chrootDone, cwdRoot, cfgLimit, limit, rootHandled >>
    /\ UNCHANGED reqVars

\* ------------------------------------------------------ directory_listing

\* The router calls directory_listing with the request's uri.
Receive ==
    /\ spc = "serving" /\ rpc \in {"idle", "done"}
    /\ \E p \in Paths : path' = p
    /\ rpc' = "got"
    /\ openErr' = ""
    /\ dirLen' = 0
    /\ yielded' = <<>>
    /\ html' = <<>>
    /\ response' = NoResponse
    /\ fsOps' = {}
    /\ UNCHANGED procVars

\* if !path.ends_with('/') { return Ok(Redirect::permanent(..)) }
Redirect ==
    /\ spc = "serving" /\ rpc = "got"
    /\ ~ends_with_slash(path)
    /\ response' = RedirectPermanent(path)
    /\ rpc' = "done"
    /\ UNCHANGED << path, openErr, dirLen, yielded, html, fsOps >>
    /\ UNCHANGED procVars

\* tokio::fs::read_dir(path) succeeds; html starts as the header.
OpenDirOk ==
    /\ spc = "serving" /\ rpc = "got"
    /\ ends_with_slash(path)
    /\ \E k \in 0..MaxEntries : dirLen' = k
    /\ fsOps' = fsOps \cup {"read_dir"}
    /\ html' = << HeaderPiece >>
    /\ rpc' = "loop"
    /\ UNCHANGED << path, openErr, yielded, response >>
    /\ UNCHANGED procVars

\* tokio::fs::read_dir(path) fails: context(NotFoundSnafu)? returns the
\* error, which axum turns into a response.
OpenDirFails ==
    /\ spc = "serving" /\ rpc = "got"
    /\ ends_with_slash(path)
    /\ \E e \in OpenErrors :
         /\ openErr' = e
         /\ response' = NotFoundResponse(e)
    /\ fsOps' = fsOps \cup {"read_dir"}
    /\ rpc' = "done"
    /\ UNCHANGED << path, dirLen, yielded, html >>
    /\ UNCHANGED procVars

\* The loop body with a failing item turned into a failure of the request.
LoopBodyAbortOnError ==
    /\ spc = "serving" /\ rpc = "loop"
    /\ TakeHasMore(Len(yielded), limit)
    /\ Len(yielded) < dirLen
    /\ \E item \in Items :
         LET idx == Len(yielded)
             warn == IF ReachedLimit(idx, limit) THEN << TruncatedRow >> ELSE <<>>
         IN /\ yielded' = Append(yielded, item)
            /\ fsOps' = fsOps \cup {"next_entry"}
                          \cup (IF item.status = "read_err" THEN {} ELSE {"metadata"})
            /\ IF item.status = "ok"
               THEN /\ html' = html \o << EntryRow(item) >> \o warn
                    /\ UNCHANGED << rpc, response >>
               ELSE /\ html' = html
                    /\ rpc' = "done"
                    /\ response' = [kind |-> "text", status |-> 200, location |-> <<>>,
                                    text |-> "Internal Server Error"]
    /\ UNCHANGED << path, openErr, dirLen >>
    /\ UNCHANGED procVars

\* One pass of `while let Some((idx, r)) = read_dir.next().await`: take()
\* has not run out and the stream has another item.
LoopBody ==
    /\ spc = "serving" /\ rpc = "loop"
    /\ TakeHasMore(Len(yielded), limit)
    /\ Len(yielded) < dirLen
    /\ \E item \in Items :
         LET idx == Len(yielded)
             row == RowFor(item)
             warn == IF ReachedLimit(idx, limit) THEN << TruncatedRow >> ELSE <<>>
         IN /\ yielded' = Append(yielded, item)
            /\ html' = html \o row \o warn
            /\ fsOps' = fsOps \cup {"next_entry"}
                          \cup (IF item.status = "read_err" THEN {} ELSE {"metadata"})
    /\ UNCHANGED << rpc, path, openErr, dirLen, response >>
    /\ UNCHANGED procVars

\* read_dir.next() is None (take() ran out, or the stream ended, which takes
\* one more poll of it); the footer is pushed and Html(html) returned.
LoopEnd ==
    /\ spc = "serving" /\ rpc = "loop"
    /\ \/ ~TakeHasMore(Len(yielded), limit)
       \/ Len(yielded) >= dirLen
    /\ fsOps' = IF TakeHasMore(Len(yielded), limit)
                THEN fsOps \cup {"next_entry"} ELSE fsOps
    /\ html' = Append(html, FooterPiece)
    /\ response' = HtmlResponse
    /\ rpc' = "done"
    /\ UNCHANGED << path, openErr, dirLen, yielded >>
    /\ UNCHANGED procVars

Next ==
    \/ MainConfigured
    \/ MainConfigFails
    \/ MainBindAndServe
    \/ MainBindFails
    \/ MainHandleRequest
    \/ ServeBuildRouter
    \/ ServeChrootOk
    \/ ServeChrootFails
    \/ ServeChdirOk
    \/ ServeChdirFails
    \/ ServeFails
    \/ Receive
    \/ Redirect
    \/ OpenDirOk
    \/ OpenDirFails
    \/ LoopBody
    \/ LoopEnd

Spec == Init /\ [][Next]_vars

\* ------------------------------------------------ what a response contains

\* The rows written for directory items, in order, without header, footer
\* and truncation warning.
Body == SelectSeq(html, LAMBDA r : r.kind \in {"entry", "entry-error"})

\* The rows that render an entry.
EntryRows == SelectSeq(html, LAMBDA r : r.kind = "entry")

\* The truncation signal is in the body.
Truncated == \E i \in 1..Len(html) : html[i].kind = "truncated-warning"

\* directory_listing has returned Ok(Html(html)).
Listed == rpc = "done" /\ response.kind = "html"

\* Every item the stream produced had a readable entry and metadata.
AllReadable == \A i \in 1..Len(yielded) : yielded[i].status = "ok"

NumReadable == Cardinality({ i \in 1..Len(yielded) : yielded[i].status = "ok" })

Failed(i) == yielded[i].status # "ok"

LastIsSlash(s) == Len(s) > 0 /\ s[Len(s)] = "/"

\* A request is being handled or has been handled.
RequestHandled == rpc # "idle" \/ rootHandled

\* ----------------------------------------------------------------- claims

\* C1 as stated: with limit L > 0 and k readable entries, k <= L gives k
\* entries and no truncation signal, k > L gives L entries and the signal.
C1_TruncationOnlyBeyondLimit ==
    (Listed /\ cfgLimit > 0 /\ AllReadable) =>
        /\ dirLen <= cfgLimit => (Len(EntryRows) = dirLen /\ ~Truncated)
        /\ dirLen > cfgLimit => (Len(EntryRows) = cfgLimit /\ Truncated)

\* C1 amended: with limit L > 0 and k readable entries, k < L gives k entries
\* and no truncation signal, k >= L gives L entries and the signal (so a
\* directory of exactly L entries is listed in full and carries the signal).
C1_TruncationAtLimit ==
    (Listed /\ cfgLimit > 0 /\ AllReadable) =>
        /\ dirLen < cfgLimit => (Len(EntryRows) = dirLen /\ ~Truncated)
        /\ dirLen >= cfgLimit => (Len(EntryRows) = cfgLimit /\ Truncated)

C1_Witness ==
    /\ Listed /\ cfgLimit > 0 /\ AllReadable
    /\ dirLen = cfgLimit /\ Len(EntryRows) = dirLen /\ Truncated

\* C2: a request for a path ending in '/' whose directory cannot be opened is
\* answered with status 404 and the fixed body, whatever the error and path.
C2_OpenFailureIs404 ==
    (rpc = "done" /\ openErr # "") =>
        /\ response.status = 404
        /\ response.text = "404 Not Found"

\* C3: a request whose path does not end in '/' is answered with a permanent
\* redirect to the path with '/' appended, and no filesystem call is made
\* while it is handled.
C3_RedirectWithoutFilesystem ==
    /\ (rpc # "idle" /\ ~LastIsSlash(path)) => fsOps = {}
    /\ (rpc = "done" /\ ~LastIsSlash(path)) =>
          /\ response.kind = "redirect"
          /\ response.status = 308
          /\ response.location = path \o <<"/">>

C3_Witness ==
    /\ rpc = "done" /\ path = <<"/", "a">>
    /\ response.kind = "redirect" /\ response.location = <<"/", "a", "/">>

\* C4: no request is handled unless chroot and then chdir have succeeded, and
\* a process in which either failed never handles a request.
C4_NoRequestBeforeSandbox ==
    RequestHandled => (chrootDone /\ cwdRoot)

\* C5 as stated: an item whose entry or metadata cannot be read leaves no row
\* and no other marker in the body.
C5_FailedEntrySilentlySkipped ==
    Listed =>
        /\ Len(Body) = NumReadable
        /\ \A i \in 1..Len(html) : html[i].kind # "entry-error"

\* C5 amended: an item whose entry or metadata cannot be read is rendered, at
\* its place in the enumeration, as the fixed entry-error row, which carries
\* neither the entry's name nor the error; readable items are rendered as
\* entry rows.
C5_FailedEntryRendersErrorRow ==
    Listed =>
        /\ Len(Body) = Len(yielded)
        /\ \A i \in 1..Len(yielded) :
              IF Failed(i)
              THEN Body[i] = [kind |-> "entry-error", href |-> <<>>, text |-> <<>>]
              ELSE Body[i].kind = "entry"

C5_Witness ==
    /\ Listed
    /\ \E i \in 1..Len(yielded) : yielded[i].status = "meta_err"
    /\ \E i \in 1..Len(yielded) : yielded[i].status = "read_err"

Min(a, b) == IF a < b THEN a ELSE b

\* C6: a failing item never aborts the request: once the directory is open
\* the handler returns a success response, the enumeration runs through the
\* first `limit` items, and every readable one of them is rendered, in order.
C6_FailureDoesNotAbort ==
    (rpc = "done" /\ LastIsSlash(path) /\ openErr = "") =>
        /\ response.kind = "html" /\ response.status = 200
        /\ Len(yielded) = Min(dirLen, limit)
        /\ Len(EntryRows) = NumReadable
        /\ \A i \in 1..Len(yielded) :
              ~Failed(i) =>
                  \E j \in 1..Len(html) :
                      /\ html[j].kind = "entry"
                      /\ html[j].text =
                           encode_safe(to_string_lossy(yielded[i].name))
                             \o (IF yielded[i].is_dir THEN <<"/">> ELSE <<>>)

C6_Witness ==
    /\ Listed
    /\ \E i, j \in 1..Len(yielded) : i < j /\ Failed(i) /\ ~Failed(j)

\* C7: with limit 0 in the configuration every one of the k items of the
\* directory is rendered, and the truncation signal never appears.
C7_ZeroLimitIsUnbounded ==
    cfgLimit = 0 =>
        /\ ~Truncated
        /\ Listed => (Len(Body) = dirLen /\ Len(EntryRows) = NumReadable)

C7_Witness ==
    Listed /\ cfgLimit = 0 /\ dirLen = MaxEntries /\ AllReadable

\* Percent-encoding of one character of a URL path segment: everything but
\* the unreserved characters becomes %XX.  (The reference C8 names; the
\* handler calls no such function.)
percent_encode_char(c) ==
    CASE c = " " -> <<"%", "2", "0">>
      [] c = "\"" -> <<"%", "2", "2">>
      [] c = "#" -> <<"%", "2", "3">>
      [] c = "%" -> <<"%", "2", "5">>
      [] c = "&" -> <<"%", "2", "6">>
      [] c = "'" -> <<"%", "2", "7">>
      [] c = "<" -> <<"%", "3", "C">>
      [] c = ">" -> <<"%", "3", "E">>
      [] c = "?" -> <<"%", "3", "F">>
      [] c = "xFF" -> <<"%", "F", "F">>
      [] OTHER -> <<c>>

RECURSIVE percent_encode(_)
percent_encode(s) ==
    IF s = <<>> THEN <<>> ELSE percent_encode_char(Head(s)) \o percent_encode(Tail(s))

StartsAt(s, i, pat) ==
    /\ i + Len(pat) - 1 <= Len(s)
    /\ SubSeq(s, i, i + Len(pat) - 1) = pat

Entities ==
    { <<"&", "a", "m", "p", ";">>, <<"&", "l", "t", ";">>, <<"&", "g", "t", ";">>,
      <<"&", "q", "u", "o", "t", ";">>, <<"&", "#", "x", "2", "7", ";">>,
      <<"&", "#", "x", "2", "F", ";">> }

\* s holds a '<', '>' or '"', or an '&' that does not start an entity.
HasRawSpecial(s) ==
    \E i \in 1..Len(s) :
        \/ s[i] \in {"<", ">", "\""}
        \/ s[i] = "&" /\ ~(\E e \in Entities : StartsAt(s, i, e))

Slash(d) == IF d THEN <<"/">> ELSE <<>>

\* C8: for every rendered entry the href is the percent-encoding of the file
\* name, attribute-escaped, the displayed name is the file name text-escaped,
\* and neither holds a raw '<', '>', '&' or '"'.
C8_HrefPercentEncodedAndEscaped ==
    \A i \in 1..Len(Body) :
        Body[i].kind = "entry" =>
            /\ Body[i].href =
                 encode_double_quoted_attribute(percent_encode(yielded[i].name))
                   \o Slash(yielded[i].is_dir)
            /\ Body[i].text =
                 encode_safe(to_string_lossy(yielded[i].name)) \o Slash(yielded[i].is_dir)
            /\ ~HasRawSpecial(Body[i].href)
            /\ ~HasRawSpecial(Body[i].text)

Front(s) == SubSeq(s, 1, Len(s) - 1)

\* C9: the displayed name and the href of a rendered entry end with exactly
\* one appended '/' if the entry is a directory, and with none otherwise.
C9_SlashIffDirectory ==
    \A i \in 1..Len(Body) :
        Body[i].kind = "entry" =>
            LET d == yielded[i].is_dir
            IN /\ LastIsSlash(Body[i].text) <=> d
               /\ LastIsSlash(Body[i].href) <=> d
               /\ d => /\ ~LastIsSlash(Front(Body[i].text))
                       /\ ~LastIsSlash(Front(Body[i].href))

C9_Witness ==
    \E i, j \in 1..Len(Body) :
        /\ Body[i].kind = "entry" /\ yielded[i].is_dir
        /\ Body[j].kind = "entry" /\ ~yielded[j].is_dir

\* C10 as stated: with limit > 0 the number of entries rendered is at most
\* limit, and the truncation signal is present iff it equals limit.
C10_SignalIffEntriesEqualLimit ==
    (Listed /\ cfgLimit > 0) =>
        /\ Len(EntryRows) <= cfgLimit
        /\ Truncated <=> Len(EntryRows) = cfgLimit

\* C10 amended: with limit > 0 the number of rows written for directory items
\* (entry rows plus entry-error rows) is at most limit, and the truncation
\* signal is present iff that number equals limit.
C10_SignalIffRowsEqualLimit ==
    (Listed /\ cfgLimit > 0) =>
        /\ Len(Body) <= cfgLimit
        /\ Truncated <=> Len(Body) = cfgLimit

C10_Witness ==
    /\ Listed /\ cfgLimit > 0 /\ Truncated
    /\ \E i \in 1..Len(yielded) : Failed(i)
    /\ \E i \in 1..Len(yielded) : ~Failed(i)

====
